---- MODULE Spec2Model ----
(***************************************************************************)
(* Model of seed.py: the Yelp-to-database seeding utility of breadcrumbs.  *)
(*                                                                         *)
(* The database is a PostgreSQL database with two tables (cities,          *)
(* restaurants) and the two serial sequences behind their primary keys.    *)
(* Every caller (a process running seed.py code) owns one SQLAlchemy       *)
(* session; objects added to a session are pending until the session's     *)
(* commit writes them to the tables.                                       *)
(*                                                                         *)
(* Restaurant rows are kept run-length encoded: one record stands for the  *)
(* `count` rows built from one API page, businesses biz+1 .. biz+count of  *)
(* the result set, which all carry the same city_id.  A committed run has  *)
(* the ids restaurant_id .. restaurant_id+count-1.                         *)
(***************************************************************************)
EXTENDS Integers, Sequences, FiniteSets

VARIABLES
    cities,         \* committed rows of table cities: [city_id, name]
    citySeq,        \* cities_city_id_seq: [last_value, is_called]
    restaurants,    \* committed rows of table restaurants (runs)
    restSeq,        \* restaurants_restaurant_id_seq: [last_value, is_called]
    apiTotal,       \* `total` of the Yelp search result
    apiFirst,       \* number of businesses Yelp puts in the page at offset 0
    apiRest,        \* number of businesses Yelp puts in a page at offset > 0
    active,         \* the callers that exist
    pc,             \* per caller: where it is in the code
    op,             \* per caller: the function it called last
    arg,            \* per caller: the `city` argument
    session,        \* per caller: pending objects of db.session
    city_id,        \* per caller: local city_id of load_restaurants
    offset,         \* per caller: local offset
    total_results,  \* per caller: local total_results
    max_id,         \* per caller: local max_id of set_val_restaurant_id
    fetches,        \* per caller: log of get_restaurants calls of the last load
    resolves,       \* per caller: get_city_id calls made by the current call
    returned,       \* per name: log of the ids get_city_id returned
    snap,           \* per caller: committed state when the current call began
    opsLeft         \* per caller: calls it may still make

vars == <<cities, citySeq, restaurants, restSeq, apiTotal, apiFirst, apiRest,
          active, pc, op, arg, session, city_id, offset, total_results,
          max_id, fetches, resolves, returned, snap, opsLeft>>

dbVars == <<cities, citySeq, restaurants, restSeq>>

apiVars == <<apiTotal, apiFirst, apiRest, active>>

\* ---------------------------------------------------------------- bounds
MaxOps == 2

Procs == {1, 2}
Names == {"Sunnyvale", "Oakland"}
Totals == {0, 3, 45, 1000, 1500}
ConcTotals == {0, 3}
PagePlans == {<<20, 20>>, <<1, 2>>}

\* ------------------------------------------------------ program constants
PageStep == 20
HardCeiling == 1000
None == 0

\* ---------------------------------------------------------------- helpers
Min(a, b) == IF a < b THEN a ELSE b

SetMax(S) == CHOOSE m \in S : \A x \in S : x <= m

CeilDiv(a, b) == (a + b - 1) \div b

\* PostgreSQL sequence: the id the next nextval() generates
NextVal(s) == IF s.is_called THEN s.last_value + 1 ELSE s.last_value

\* the sequence after n >= 0 calls of nextval()
Advance(s, n) ==
    IF n = 0 THEN s ELSE [last_value |-> NextVal(s) + n - 1, is_called |-> TRUE]

\* SELECT setval(seq, v): two-argument form, is_called becomes true
SetVal(v) == [last_value |-> v, is_called |-> TRUE]

FreshSeq == [last_value |-> 1, is_called |-> FALSE]

PendingRestaurants(sess) ==
    {i \in 1..Len(sess) : sess[i].kind = "Restaurant"}

PendingCities(sess) ==
    {i \in 1..Len(sess) : sess[i].kind = "City"}

RECURSIVE StagedCount(_)
StagedCount(sess) ==
    IF sess = <<>> THEN 0
    ELSE (IF Head(sess).kind = "Restaurant" THEN Head(sess).count ELSE 0)
         + StagedCount(Tail(sess))

\* func.max(Restaurant.restaurant_id): NULL (None) on an empty table
MaxRestaurantId(tbl) ==
    IF tbl = {} THEN None
    ELSE SetMax({r.restaurant_id + r.count - 1 : r \in tbl})

\* query(City).filter(City.name == city): the matching committed rows
LookupCityAlwaysMiss(tbl, n) == {}

LookupCity(tbl, n) == {r \in tbl : r.name = n}

\* the Yelp page at offset off: how many businesses it holds
Businesses(off) ==
    IF off >= apiTotal THEN 0
    ELSE Min(IF off = 0 THEN apiFirst ELSE apiRest, apiTotal - off)

\* while 1000 > offset < total_results
LoopCondNoCeiling(off, tot) == off < tot

LoopCondInclusive(off, tot) == HardCeiling > off /\ off <= tot

LoopCond(off, tot) == HardCeiling > off /\ off < tot

\* the for loop over one page: one Restaurant(city_id=...) added per business
StagePageDropLast(sess, cid, off, n) ==
    IF n <= 1 THEN sess
    ELSE Append(sess, [kind |-> "Restaurant", city_id |-> cid,
                       biz |-> off, count |-> n - 1])

StagePageWrongCity(sess, cid, off, n) ==
    IF n = 0 THEN sess
    ELSE Append(sess, [kind |-> "Restaurant", city_id |-> cid + 1,
                       biz |-> off, count |-> n])

StagePage(sess, cid, off, n) ==
    IF n = 0 THEN sess
    ELSE Append(sess, [kind |-> "Restaurant", city_id |-> cid,
                       biz |-> off, count |-> n])

\* flush of the pending restaurants: ids come from the sequence, in order
RECURSIVE FlushRestaurants(_, _)
FlushRestaurants(sess, s) ==
    IF sess = <<>> THEN {}
    ELSE IF Head(sess).kind = "Restaurant"
         THEN {[restaurant_id |-> NextVal(s), count |-> Head(sess).count,
                city_id |-> Head(sess).city_id, biz |-> Head(sess).biz]}
              \cup FlushRestaurants(Tail(sess), Advance(s, Head(sess).count))
         ELSE FlushRestaurants(Tail(sess), s)

FlushCities(sess) ==
    {[city_id |-> sess[i].city_id, name |-> sess[i].name] :
        i \in PendingCities(sess)}

\* db.session.commit(): every pending object of the session becomes a row
Commit(sess) ==
    /\ cities' = cities \cup FlushCities(sess)
    /\ restaurants' = restaurants \cup FlushRestaurants(sess, restSeq)
    /\ restSeq' = Advance(restSeq, StagedCount(sess))

Snapshot == [cities |-> cities, restaurants |-> restaurants,
             restSeq |-> restSeq]

\* where get_city_id returns to
ReturnPoint(c) == IF op[c] = "load_restaurants" THEN "fetch_total" ELSE "idle"

\* ------------------------------------------------------------------ Init
SeededCities == {[city_id |-> 7, name |-> "Sunnyvale"]}
SeededRestaurants ==
    {[restaurant_id |-> i, count |-> 1, city_id |-> 7, biz |-> 0] :
        i \in {3, 7, 5}}

Databases ==
    { [cities |-> {}, citySeq |-> FreshSeq,
       restaurants |-> {}, restSeq |-> FreshSeq],
      [cities |-> SeededCities, citySeq |-> SetVal(7),
       restaurants |-> {}, restSeq |-> FreshSeq],
      [cities |-> SeededCities, citySeq |-> SetVal(7),
       restaurants |-> SeededRestaurants, restSeq |-> SetVal(7)] }

InitWith(callers, totals, ops) ==
    /\ \E d \in Databases :
         /\ cities = d.cities
         /\ citySeq = d.citySeq
         /\ restaurants = d.restaurants
         /\ restSeq = d.restSeq
    /\ apiTotal \in totals
    /\ \E p \in PagePlans : apiFirst = p[1] /\ apiRest = p[2]
    /\ active \in callers
    /\ pc = [c \in Procs |-> "idle"]
    /\ op = [c \in Procs |-> "none"]
    /\ arg = [c \in Procs |-> "Sunnyvale"]
    /\ session = [c \in Procs |-> <<>>]
    /\ city_id = [c \in Procs |-> None]
    /\ offset = [c \in Procs |-> 0]
    /\ total_results = [c \in Procs |-> 0]
    /\ max_id = [c \in Procs |-> None]
    /\ fetches = [c \in Procs |-> <<>>]
    /\ resolves = [c \in Procs |-> 0]
    /\ returned = [n \in Names |-> <<>>]
    /\ snap = [c \in Procs |-> Snapshot]
    /\ opsLeft = [c \in Procs |-> ops]

\* one caller, as the entry point runs: one call after the other
Init == InitWith({{1}}, Totals, MaxOps)

\* one or two callers, each making one call, interleaved
InitConc == InitWith({{1}, {1, 2}}, ConcTotals, 1)

\* --------------------------------------------------------------- actions
\* seed.py has no try/except but the one for NoResultFound: any other error
\* leaves the function and ends the process (pc = "crashed"), whose session
\* is never committed afterwards.
locals == <<session, city_id, offset, total_results, max_id>>

Begin(c, f, n) ==
    /\ c \in active
    /\ pc[c] = "idle"
    /\ opsLeft[c] > 0
    /\ op' = [op EXCEPT ![c] = f]
    /\ arg' = [arg EXCEPT ![c] = n]
    /\ snap' = [snap EXCEPT ![c] = Snapshot]
    /\ resolves' = [resolves EXCEPT ![c] = 0]
    /\ opsLeft' = [opsLeft EXCEPT ![c] = @ - 1]

\* a caller calls get_city_id(city) on its own
CallGetCityId(c, n) ==
    /\ Begin(c, "get_city_id", n)
    /\ pc' = [pc EXCEPT ![c] = "gc_lookup"]
    /\ UNCHANGED <<dbVars, apiVars, locals, fetches, returned>>

\* load_restaurants(city) is entered: its first statement calls get_city_id
CallLoadRestaurants(c, n) ==
    /\ Begin(c, "load_restaurants", n)
    /\ pc' = [pc EXCEPT ![c] = "gc_lookup"]
    /\ fetches' = [fetches EXCEPT ![c] = <<>>]
    /\ city_id' = [city_id EXCEPT ![c] = None]
    /\ UNCHANGED <<dbVars, apiVars, session, offset, total_results, max_id,
                   returned>>

\* set_val_restaurant_id() is entered
CallSetVal(c) ==
    /\ Begin(c, "set_val_restaurant_id", arg[c])
    /\ pc' = [pc EXCEPT ![c] = "sv_query"]
    /\ UNCHANGED <<dbVars, apiVars, locals, fetches, returned>>

\* get_city_id: the query with .one()
GcLookup(c) ==
    /\ c \in active
    /\ pc[c] = "gc_lookup"
    /\ LET rows == LookupCity(cities, arg[c]) IN
         IF Cardinality(rows) = 1
         THEN LET id == (CHOOSE r \in rows : TRUE).city_id IN
                /\ pc' = [pc EXCEPT ![c] = ReturnPoint(c)]
                /\ city_id' = [city_id EXCEPT ![c] = id]
                /\ returned' = [returned EXCEPT ![arg[c]] = Append(@, id)]
                /\ resolves' = [resolves EXCEPT ![c] = @ + 1]
         ELSE /\ pc' = [pc EXCEPT ![c] =
                          IF rows = {} THEN "gc_insert" ELSE "crashed"]
              /\ UNCHANGED <<city_id, returned, resolves>>
    /\ UNCHANGED <<dbVars, apiVars, op, arg, session, offset, total_results,
                   max_id, fetches, snap, opsLeft>>

\* get_city_id: except NoResultFound: add, commit, return new_city.city_id
GcInsertNoCommit(c) ==
    /\ c \in active
    /\ pc[c] = "gc_insert"
    /\ LET id == NextVal(citySeq) IN
         /\ citySeq' = Advance(citySeq, 1)
         /\ session' = [session EXCEPT ![c] =
              Append(@, [kind |-> "City", city_id |-> id, name |-> arg[c]])]
         /\ city_id' = [city_id EXCEPT ![c] = id]
         /\ returned' = [returned EXCEPT ![arg[c]] = Append(@, id)]
    /\ pc' = [pc EXCEPT ![c] = ReturnPoint(c)]
    /\ resolves' = [resolves EXCEPT ![c] = @ + 1]
    /\ UNCHANGED <<cities, restaurants, restSeq, apiVars, op, arg, offset,
                   total_results, max_id, fetches, snap, opsLeft>>

GcInsertIfAbsent(c) ==
    /\ c \in active
    /\ pc[c] = "gc_insert"
    /\ LET rows == LookupCity(cities, arg[c])
           id == IF rows = {} THEN NextVal(citySeq)
                 ELSE (CHOOSE r \in rows : TRUE).city_id IN
         /\ citySeq' = IF rows = {} THEN Advance(citySeq, 1) ELSE citySeq
         /\ cities' = IF rows = {}
                      THEN cities \cup {[city_id |-> id, name |-> arg[c]]}
                      ELSE cities
         /\ city_id' = [city_id EXCEPT ![c] = id]
         /\ returned' = [returned EXCEPT ![arg[c]] = Append(@, id)]
    /\ pc' = [pc EXCEPT ![c] = ReturnPoint(c)]
    /\ resolves' = [resolves EXCEPT ![c] = @ + 1]
    /\ UNCHANGED <<restaurants, restSeq, session, apiVars, op, arg, offset,
                   total_results, max_id, fetches, snap, opsLeft>>

GcInsert(c) ==
    /\ c \in active
    /\ pc[c] = "gc_insert"
    /\ LET id == NextVal(citySeq) IN
         /\ citySeq' = Advance(citySeq, 1)
         /\ Commit(Append(session[c],
                [kind |-> "City", city_id |-> id, name |-> arg[c]]))
         /\ city_id' = [city_id EXCEPT ![c] = id]
         /\ returned' = [returned EXCEPT ![arg[c]] = Append(@, id)]
    /\ session' = [session EXCEPT ![c] = <<>>]
    /\ pc' = [pc EXCEPT ![c] = ReturnPoint(c)]
    /\ resolves' = [resolves EXCEPT ![c] = @ + 1]
    /\ UNCHANGED <<apiVars, op, arg, offset, total_results, max_id, fetches,
                   snap, opsLeft>>

\* offset = 0; total_results = get_restaurants(city, offset).total
LoadFetchTotal(c) ==
    /\ c \in active
    /\ pc[c] = "fetch_total"
    /\ offset' = [offset EXCEPT ![c] = 0]
    /\ \E ok \in BOOLEAN :
         /\ fetches' = [fetches EXCEPT ![c] =
                          Append(@, [offset |-> 0, ok |-> ok])]
         /\ IF ok
            THEN /\ total_results' = [total_results EXCEPT ![c] = apiTotal]
                 /\ pc' = [pc EXCEPT ![c] = "loop"]
            ELSE /\ pc' = [pc EXCEPT ![c] = "crashed"]
                 /\ UNCHANGED total_results
    /\ UNCHANGED <<dbVars, apiVars, op, arg, session, city_id, max_id,
                   resolves, returned, snap, opsLeft>>

\* one iteration of the while loop: fetch the page, add its restaurants,
\* offset += 20
LoadPageCommitEach(c) ==
    /\ c \in active
    /\ pc[c] = "loop"
    /\ LoopCond(offset[c], total_results[c])
    /\ \E ok \in BOOLEAN :
         /\ fetches' = [fetches EXCEPT ![c] =
                          Append(@, [offset |-> offset[c], ok |-> ok])]
         /\ IF ok
            THEN /\ Commit(StagePage(session[c], city_id[c], offset[c],
                                     Businesses(offset[c])))
                 /\ session' = [session EXCEPT ![c] = <<>>]
                 /\ offset' = [offset EXCEPT ![c] = @ + PageStep]
                 /\ UNCHANGED pc
            ELSE /\ pc' = [pc EXCEPT ![c] = "crashed"]
                 /\ UNCHANGED <<session, offset, cities, restaurants, restSeq>>
    /\ UNCHANGED <<citySeq, apiVars, op, arg, city_id, total_results, max_id,
                   resolves, returned, snap, opsLeft>>

LoadPage(c) ==
    /\ c \in active
    /\ pc[c] = "loop"
    /\ LoopCond(offset[c], total_results[c])
    /\ \E ok \in BOOLEAN :
         /\ fetches' = [fetches EXCEPT ![c] =
                          Append(@, [offset |-> offset[c], ok |-> ok])]
         /\ IF ok
            THEN /\ session' = [session EXCEPT ![c] =
                      StagePage(@, city_id[c], offset[c],
                                Businesses(offset[c]))]
                 /\ offset' = [offset EXCEPT ![c] = @ + PageStep]
                 /\ UNCHANGED pc
            ELSE /\ pc' = [pc EXCEPT ![c] = "crashed"]
                 /\ UNCHANGED <<session, offset>>
    /\ UNCHANGED <<dbVars, apiVars, op, arg, city_id, total_results, max_id,
                   resolves, returned, snap, opsLeft>>

\* the while condition is false: the loop is left
LoadLoopExit(c) ==
    /\ c \in active
    /\ pc[c] = "loop"
    /\ ~LoopCond(offset[c], total_results[c])
    /\ pc' = [pc EXCEPT ![c] = "commit"]
    /\ UNCHANGED <<dbVars, apiVars, op, arg, locals, fetches, resolves,
                   returned, snap, opsLeft>>

\* db.session.commit() at the end of load_restaurants
LoadCommit(c) ==
    /\ c \in active
    /\ pc[c] = "commit"
    /\ Commit(session[c])
    /\ session' = [session EXCEPT ![c] = <<>>]
    /\ pc' = [pc EXCEPT ![c] = "idle"]
    /\ UNCHANGED <<citySeq, apiVars, op, arg, city_id, offset, total_results,
                   max_id, fetches, resolves, returned, snap, opsLeft>>

\* set_val_restaurant_id: max_id = int(result[0]); int(None) raises TypeError
SetValQueryNullAsZero(c) ==
    /\ c \in active
    /\ pc[c] = "sv_query"
    /\ max_id' = [max_id EXCEPT ![c] = MaxRestaurantId(restaurants)]
    /\ pc' = [pc EXCEPT ![c] = "sv_exec"]
    /\ UNCHANGED <<dbVars, apiVars, op, arg, session, city_id, offset,
                   total_results, fetches, resolves, returned, snap, opsLeft>>

SetValQuery(c) ==
    /\ c \in active
    /\ pc[c] = "sv_query"
    /\ LET result == MaxRestaurantId(restaurants) IN
         IF result = None
         THEN /\ pc' = [pc EXCEPT ![c] = "crashed"]
              /\ UNCHANGED max_id
         ELSE /\ max_id' = [max_id EXCEPT ![c] = result]
              /\ pc' = [pc EXCEPT ![c] = "sv_exec"]
    /\ UNCHANGED <<dbVars, apiVars, op, arg, session, city_id, offset,
                   total_results, fetches, resolves, returned, snap, opsLeft>>

\* SELECT setval('restaurants_restaurant_id_seq', max_id + 1); commit
SetValExec(c) ==
    /\ c \in active
    /\ pc[c] = "sv_exec"
    /\ cities' = cities \cup FlushCities(session[c])
    /\ restaurants' = restaurants \cup FlushRestaurants(session[c], restSeq)
    /\ restSeq' = SetVal(max_id[c] + 1)
    /\ session' = [session EXCEPT ![c] = <<>>]
    /\ pc' = [pc EXCEPT ![c] = "idle"]
    /\ UNCHANGED <<citySeq, apiVars, op, arg, city_id, offset, total_results,
                   max_id, fetches, resolves, returned, snap, opsLeft>>

Next ==
    \E c \in Procs :
        \/ \E n \in Names : CallGetCityId(c, n)
        \/ \E n \in Names : CallLoadRestaurants(c, n)
        \/ CallSetVal(c)
        \/ GcLookup(c)
        \/ GcInsert(c)
        \/ LoadFetchTotal(c)
        \/ LoadPage(c)
        \/ LoadLoopExit(c)
        \/ LoadCommit(c)
        \/ SetValQuery(c)
        \/ SetValExec(c)

Spec == Init /\ [][Next]_vars

SpecConc == InitConc /\ [][Next]_vars

\* ---------------------------------------------------------------- claims
LoadOf(c) == op[c] = "load_restaurants"

SetValOf(c) == op[c] = "set_val_restaurant_id"

\* the loop of the caller's load_restaurants call has been left
LoopDone(c) == LoadOf(c) /\ pc[c] \in {"commit", "idle"}

Offsets(c) == [i \in 1..Len(fetches[c]) |-> fetches[c][i].offset]

PageOffsets(T) == [i \in 1..CeilDiv(T, 20) |-> 20 * (i - 1)]

CitiesNamed(n) == {r \in cities : r.name = n}

Dup(tbl) == \E r1, r2 \in tbl : r1 # r2 /\ r1.name = r2.name

\* C1 as stated: for a total T below 1000 one load_restaurants call makes
\* exactly ceil(T/20) get_restaurants calls, at offsets 0, 20, 40, ... below T
\* (3 calls at 0, 20, 40 for T = 45).
C1_Original ==
    \A c \in active :
        (LoopDone(c) /\ total_results[c] < 1000)
            => Offsets(c) = PageOffsets(total_results[c])

\* C1 amended: for a total T below 1000 one load_restaurants call makes
\* exactly 1 + ceil(T/20) get_restaurants calls: one at offset 0 that only
\* reads the total, then one per offset 0, 20, 40, ... below T (4 calls at
\* 0, 0, 20, 40 for T = 45).
C1_FetchCount ==
    \A c \in active :
        (LoopDone(c) /\ total_results[c] < 1000)
            => /\ Offsets(c) = <<0>> \o PageOffsets(total_results[c])
               /\ Len(fetches[c]) = 1 + CeilDiv(total_results[c], 20)

C1_Witness ==
    \E c \in active :
        LoopDone(c) /\ total_results[c] = 45 /\ Offsets(c) = <<0, 0, 20, 40>>

\* C2 as stated: for a total >= 1000 one load_restaurants call makes at most
\* 50 get_restaurants calls and never fetches at an offset >= 1000.
C2_Original ==
    \A c \in active :
        (LoadOf(c) /\ apiTotal >= 1000)
            => /\ Len(fetches[c]) <= 50
               /\ \A i \in 1..Len(fetches[c]) : fetches[c][i].offset < 1000

\* C2 amended: for a total >= 1000 one load_restaurants call makes at most 51
\* get_restaurants calls (the call that reads the total, then at most 50 in
\* the loop), whatever the total is, and never fetches at an offset >= 1000;
\* a call that leaves the loop has made exactly 51.
C2_FetchCeiling ==
    \A c \in active :
        (LoadOf(c) /\ apiTotal >= 1000)
            => /\ Len(fetches[c]) <= 51
               /\ \A i \in 1..Len(fetches[c]) : fetches[c][i].offset < 1000
               /\ LoopDone(c) => Len(fetches[c]) = 51

C2_Witness ==
    \E c \in active :
        LoopDone(c) /\ apiTotal = 1500 /\ Len(fetches[c]) = 51
            /\ fetches[c][51].offset = 980

SameCity(c) ==
    \A i \in PendingRestaurants(session[c]) :
        session[c][i].city_id = city_id[c]

\* C3 as stated: with total = 3 delivered as pages of 1 and 2 records, when
\* the loop has completed the session holds exactly 3 staged restaurants, all
\* with the resolved city_id, none committed before the final commit.
C3_Original ==
    \A c \in active :
        (LoadOf(c) /\ pc[c] = "commit" /\ total_results[c] = 3
                   /\ apiFirst = 1 /\ apiRest = 2)
            => /\ StagedCount(session[c]) = 3
               /\ SameCity(c)
               /\ restaurants = snap[c].restaurants

\* the records of the pages at offsets 0, 20, 40, ... below min(T, 1000)
RECURSIVE PagedRecords(_, _)
PagedRecords(off, T) ==
    IF off >= T \/ off >= 1000 THEN 0
    ELSE (IF off = 0 THEN Min(apiFirst, T) ELSE Min(apiRest, T - off))
         + PagedRecords(off + 20, T)

\* C3 amended: when the loop has completed, the session holds exactly the
\* records of the pages at offsets 0, 20, 40, ...: for total = 3 that is the
\* one page at offset 0, so 3 staged restaurants when the 3 records come as
\* one page and 1 when they come as pages of 1 and 2; all carry the resolved
\* city_id and none is committed before the final commit.
C3_StagedPages ==
    \A c \in active :
        (LoadOf(c) /\ pc[c] = "commit")
            => /\ StagedCount(session[c]) = PagedRecords(0, total_results[c])
               /\ total_results[c] = 3
                    => StagedCount(session[c]) = Min(apiFirst, 3)
               /\ SameCity(c)
               /\ restaurants = snap[c].restaurants

C3_Witness ==
    \E c \in active :
        /\ LoadOf(c) /\ pc[c] = "commit" /\ total_results[c] = 3
        /\ apiFirst = 20 /\ StagedCount(session[c]) = 3

\* C4 as stated: nothing, the city created by get_city_id included, is
\* committed before the commit that ends load_restaurants.
C4_Original ==
    \A c \in active :
        (LoadOf(c) /\ pc[c] # "idle")
            => cities = snap[c].cities /\ restaurants = snap[c].restaurants

\* C4 amended: the Restaurant writes of one load_restaurants pass share one
\* uncommitted transaction that only the commit ending the loop commits; the
\* city get_city_id creates is committed by get_city_id itself, before the
\* first fetch.  A pass that fails before the final commit leaves the
\* committed restaurants as they were and the committed cities changed by at
\* most that one city.
C4_OneTransaction ==
    \A c \in active :
        (LoadOf(c) /\ pc[c] # "idle")
            => /\ restaurants = snap[c].restaurants
               /\ restSeq = snap[c].restSeq
               /\ cities \ snap[c].cities
                    \subseteq {[city_id |-> city_id[c], name |-> arg[c]]}
               /\ fetches[c] # <<>>
                    => [city_id |-> city_id[c], name |-> arg[c]] \in cities

C4_Witness ==
    \E c \in active :
        /\ LoadOf(c) /\ pc[c] = "crashed"
        /\ StagedCount(session[c]) > 0
        /\ cities # snap[c].cities

\* C5: after set_val_restaurant_id on a table whose maximum restaurant id is
\* M, the next id the sequence generates is M + 1.
C5_NextIdIsMaxPlusOne ==
    \A c \in active :
        (SetValOf(c) /\ pc[c] = "idle")
            => NextVal(restSeq) = MaxRestaurantId(restaurants) + 1

\* C6: with one sequential caller get_city_id is an idempotent get-or-create:
\* every call for a name returns the id of the one city of that name, so two
\* calls return the same id, an existing city (Sunnyvale, 7) is returned as
\* it is, and there is at most one city per name.
C6_GetOrCreate ==
    \A n \in Names :
        /\ Cardinality(CitiesNamed(n)) <= 1
        /\ \A i \in 1..Len(returned[n]) :
              CitiesNamed(n) = {[city_id |-> returned[n][i], name |-> n]}
        /\ \A i, j \in 1..Len(returned[n]) : returned[n][i] = returned[n][j]
        /\ [city_id |-> 7, name |-> n] \in cities
              => \A i \in 1..Len(returned[n]) : returned[n][i] = 7

C6_Witness ==
    /\ Len(returned["Oakland"]) >= 2
    /\ Cardinality(CitiesNamed("Oakland")) = 1

\* C7: when a get_restaurants call of load_restaurants fails, the call ends
\* in the error without reaching its commit, and none of the restaurants of
\* the pass is persisted, those of the pages staged before included.
C7_FailedFetch ==
    \A c \in active :
        (LoadOf(c) /\ \E i \in 1..Len(fetches[c]) : ~fetches[c][i].ok)
            => /\ pc[c] = "crashed"
               /\ restaurants = snap[c].restaurants

C7_Witness ==
    \E c \in active :
        /\ LoadOf(c) /\ pc[c] = "crashed"
        /\ Len(fetches[c]) >= 3 /\ ~fetches[c][Len(fetches[c])].ok
        /\ StagedCount(session[c]) > 0
        /\ restaurants = snap[c].restaurants

\* C8: a load_restaurants call resolves the city exactly once, before its
\* first fetch and before it builds a Restaurant, and every Restaurant it
\* builds carries that city_id.
C8_ResolvedOnce ==
    \A c \in active :
        LoadOf(c)
            => /\ resolves[c] <= 1
               /\ pc[c] \in {"gc_lookup", "gc_insert"}
                    => /\ resolves[c] = 0
                       /\ fetches[c] = <<>>
                       /\ PendingRestaurants(session[c]) = {}
               /\ (fetches[c] # <<>> \/ PendingRestaurants(session[c]) # {})
                    => /\ resolves[c] = 1
                       /\ city_id[c] # None
                       /\ [city_id |-> city_id[c], name |-> arg[c]] \in cities
                       /\ SameCity(c)

C8_Witness ==
    \E c \in active :
        /\ LoadOf(c) /\ pc[c] = "loop"
        /\ Cardinality(PendingRestaurants(session[c])) >= 2
        /\ resolves[c] = 1

\* C9: a caller that took the not-found branch of get_city_id inserts its
\* city whatever was inserted since its lookup, so two callers that both
\* looked up before either inserted create two cities of one name; a step
\* creates such a duplicate only that way, and never with a single caller.
C9_LookupInsertRace ==
    [][ /\ \A c \in active :
              (pc[c] = "gc_insert" /\ pc'[c] # "gc_insert")
                  => \E r \in cities' \ cities : r.name = arg[c]
        /\ Dup(cities') => active = {1, 2}
        /\ (~Dup(cities) /\ Dup(cities'))
              => \E c \in active :
                    /\ pc[c] = "gc_insert" /\ pc'[c] # "gc_insert"
                    /\ CitiesNamed(arg[c]) # {}
      ]_vars

C9_Witness == Dup(cities)

\* C10: on an empty restaurants table set_val_restaurant_id ends in an error
\* before it executes setval: the sequence keeps its value and nothing is
\* committed.
C10_EmptyTable ==
    \A c \in active :
        /\ pc[c] = "sv_exec" => restaurants # {}
        /\ (SetValOf(c) /\ snap[c].restaurants = {})
              => pc[c] \in {"sv_query", "crashed"}
        /\ (SetValOf(c) /\ pc[c] = "crashed")
              => /\ restaurants = {}
                 /\ restSeq = snap[c].restSeq
                 /\ cities = snap[c].cities

C10_Witness ==
    \E c \in active :
        /\ SetValOf(c) /\ pc[c] = "crashed"
        /\ apiTotal = 0 /\ Offsets(c) = <<0>>
        /\ restSeq = FreshSeq

====
